---------------------------- MODULE Spec2Model ----------------------------
(***************************************************************************)
(* A model of opennbt/nbt.py: the NBT tag classes, their recursive         *)
(* read/write protocol over struct.pack / struct.unpack, the dict-like     *)
(* TAG_Compound and the NBTFile document wrapper.                          *)
(*                                                                         *)
(* Representation.                                                         *)
(*   - A byte string (Python 2 str) is a sequence of integers 0..255.      *)
(*   - A tag is a record [type, name, value]; type is the tag's index in   *)
(*     _tags (1..11), name is a byte string or None.  A TAG_List also      *)
(*     carries _type as the field ltype.                                   *)
(*   - A TAG_Compound's value is a function from keys (byte strings) to    *)
(*     tags.  Tags are values: the aliasing of one tag object between two  *)
(*     containers is not modelled.                                         *)
(*   - A TAG_Int_Array's value is [list |-> q] for the Python list q it is  *)
(*     constructed with and [int |-> n] for a Python int n, so that the    *)
(*     two kinds of value can be told apart.                               *)
(*   - Integers are Python ints.  A float is kept as its IEEE-754 bit      *)
(*     pattern, most significant byte first; only values that the          *)
(*     variant's width represents exactly are modelled.                    *)
(*   - gzip and path opening are outside the model: io is the             *)
(*     uncompressed byte stream.                                           *)
(***************************************************************************)
EXTENDS Integers, Sequences, FiniteSets, TLC

VARIABLES
    pc,             \* where the session is: "build", "written", "tampered", "loaded"
    little_endian,  \* the little_endian argument of NBTFile() and save()
    doc,            \* the in-memory object (the NBTFile; a byte string under SpecUtf8)
    last,           \* the arguments of the last in-memory call on doc
    orig,           \* the stream as it was written, before anything altered it
    io,             \* the byte stream (the uncompressed file contents)
    werr,           \* the exception the last write raised, or NoExc
    tamper,         \* what was done to the stream after it was written
    out             \* the outcome of the last read of io

vars == <<pc, little_endian, doc, last, orig, io, werr, tamper, out>>

---------------------------------------------------------------------------
(* Bounds of the model. *)

MaxListLen == 2     \* longest TAG_List value that is still appended to
MaxInts == 2        \* longest TAG_Int_Array value that is enumerated

---------------------------------------------------------------------------
(* Python values. *)

None == <<-1>>              \* a name that is not set (no byte is -1)
NoExc == "none"

\* A Python list of integers and a Python int, as a TAG_Int_Array's value.
PyList(q) == [list |-> q]

PyInt(n) == [int |-> n]

\* dict(): a mapping with no key.
EmptyDict == [k \in {} |-> None]

\* d[key] = value on a plain dict.
DictSet(d, key, value) ==
    [k \in (DOMAIN d) \cup {key} |-> IF k = key THEN value ELSE d[k]]

Reverse(s) == [i \in 1..Len(s) |-> s[Len(s) + 1 - i]]

Complement(bs) == [i \in 1..Len(bs) |-> 255 - bs[i]]

---------------------------------------------------------------------------
(* struct: fixed-width fields in an explicit byte order ('<' or '>'). *)

\* struct.calcsize of one format character.
calcsize(c) ==
    CASE c = "b" -> 1
      [] c = "h" -> 2
      [] c = "i" -> 4
      [] c = "q" -> 8
      [] c = "f" -> 4
      [] c = "d" -> 8

\* The range struct.pack accepts for an integer format; anything else is
\* struct.error.  TLC's integers are 32-bit, so every modelled value fits
\* 'i' and 'q'.
InRange(c, v) ==
    CASE c = "b" -> v >= -128 /\ v <= 127
      [] c = "h" -> v >= -32768 /\ v <= 32767
      [] c = "i" -> v >= -2147483647 - 1 /\ v <= 2147483647
      [] c = "q" -> TRUE

RECURSIVE Digits(_, _)
\* The n base-256 digits of v >= 0, most significant first.
Digits(v, n) ==
    IF n = 0 THEN <<>> ELSE Append(Digits(v \div 256, n - 1), v % 256)

RECURSIVE Value(_)
\* The unsigned number a most-significant-first byte string denotes.
Value(bs) ==
    IF bs = <<>> THEN 0
    ELSE 256 * Value(SubSeq(bs, 1, Len(bs) - 1)) + bs[Len(bs)]

\* struct.pack(order + c, v) for an integer format c and v in range:
\* two's complement in calcsize(c) bytes.
PackInt(le, c, v) ==
    LET be == IF v >= 0 THEN Digits(v, calcsize(c))
              ELSE Complement(Digits(-v - 1, calcsize(c)))
    IN  IF le THEN Reverse(be) ELSE be

\* struct.unpack(order + c, bs)[0] for an integer format c, Len(bs) = calcsize(c).
\* A 'q' beyond TLC's 32-bit integers is kept as its bytes.
UnpackInt(le, bs) ==
    LET be == IF le THEN Reverse(bs) ELSE bs
        neg == be[1] >= 128
        mag == IF neg THEN Complement(be) ELSE be
        n == Len(mag)
        fits == /\ \A i \in 1..(n - 4) : mag[i] = 0
                /\ n >= 4 => mag[n - 3] < 128
    IN  IF ~fits THEN [wide |-> be]
        ELSE IF neg THEN -Value(mag) - 1 ELSE Value(mag)

\* struct.pack / unpack of 'f' and 'd': the bit pattern in the given order.
PackFloat(le, bits) == IF le THEN Reverse(bits) ELSE bits

UnpackFloat(le, bs) == IF le THEN Reverse(bs) ELSE bs

---------------------------------------------------------------------------
(* The reader x = lambda f: struct.unpack(order + f, g.read(calcsize)).    *)
(* A read returns [ok |-> TRUE, val, pos] or [ok |-> FALSE, exc, pos],     *)
(* pos being the stream position afterwards.                               *)

Ok(val, pos) == [ok |-> TRUE, val |-> val, pos |-> pos]

Raise(exc, pos) == [ok |-> FALSE, exc |-> exc, pos |-> pos]

\* What follows a read: the exception if it raised, else K of its result.
Bind(r, K(_)) == IF r.ok THEN K(r) ELSE r

\* g.read(n), n >= 0: the next n bytes, or what is left of the stream.
GRead(stream, pos, n) ==
    SubSeq(stream, pos + 1, IF n > Len(stream) - pos THEN Len(stream) ELSE pos + n)

\* struct.unpack(fmt, data) raises struct.error unless data has exactly
\* calcsize(fmt) bytes; the position is past whatever g.read returned.
Exactly(data, size, pos) ==
    IF Len(data) # size THEN Raise("struct.error", pos + Len(data))
    ELSE Ok(data, pos + Len(data))

\* x(fmt) up to the unpacking of the fields: the size bytes of the format.
RdData(stream, pos, size) == Exactly(GRead(stream, pos, size), size, pos)

\* RdInt as it would be if a read at the end of the stream were taken for
\* zero instead of raising.
RdIntZeroAtEnd(le, stream, pos, c) ==
    IF Len(stream) - pos < calcsize(c) THEN Ok(0, Len(stream))
    ELSE Ok(UnpackInt(le, GRead(stream, pos, calcsize(c))), pos + calcsize(c))

\* rd(c) for one integer format character.
RdInt(le, stream, pos, c) ==
    Bind(RdData(stream, pos, calcsize(c)),
         LAMBDA data : Ok(UnpackInt(le, data.val), data.pos))

\* rd(c) for 'f' or 'd'.
RdFloat(le, stream, pos, c) ==
    Bind(RdData(stream, pos, calcsize(c)),
         LAMBDA data : Ok(UnpackFloat(le, data.val), data.pos))

\* rd('%ds' % length)[0]: a negative count is a bad format (struct.error from
\* calcsize, before anything is read).
RdBytes(stream, pos, length) ==
    IF length < 0 THEN Raise("struct.error", pos)
    ELSE RdData(stream, pos, length)

\* rd('%si' % length)[0]: the first of length integers.  Zero integers unpack
\* to the empty tuple, whose [0] is an IndexError.  A count beyond the stream
\* reads short whatever its size is, so 4 * length is capped to stay within
\* TLC's integers.
RdIntsFirst(le, stream, pos, length) ==
    IF length < 0 THEN Raise("struct.error", pos)
    ELSE Bind(RdData(stream, pos,
                     IF length > Len(stream) THEN 4 * Len(stream) + 4 ELSE 4 * length),
              LAMBDA data :
                  IF length = 0 THEN Raise("IndexError", data.pos)
                  ELSE Ok(UnpackInt(le, SubSeq(data.val, 1, 4)), data.pos))

\* _read_utf8(rd): length, = rd('h'); rd('%ds' % length)[0].
_read_utf8(le, stream, pos) ==
    Bind(RdInt(le, stream, pos, "h"),
         LAMBDA length : RdBytes(stream, length.pos, length.val))

---------------------------------------------------------------------------
(* The tag classes.  A class is its index in _tags. *)

TAG_Byte == 1
TAG_Short == 2
TAG_Int == 3
TAG_Long == 4
TAG_Float == 5
TAG_Double == 6
TAG_Byte_Array == 7
TAG_String == 8
TAG_List == 9
TAG_Compound == 10
TAG_Int_Array == 11

\* The registry; entry 0 of the tuple is Python's None, written 0 here.
_tags == <<0, TAG_Byte, TAG_Short, TAG_Int, TAG_Long, TAG_Float, TAG_Double,
           TAG_Byte_Array, TAG_String, TAG_List, TAG_Compound, TAG_Int_Array>>

\* _tags[i] is defined for -12 <= i <= 11: Python counts a negative index
\* from the end of the tuple.  Anything else is an IndexError.
TagsHas(i) == i >= -Len(_tags) /\ i < Len(_tags)

TagsAt(i) == IF i < 0 THEN _tags[i + Len(_tags) + 1] ELSE _tags[i + 1]

\* STRUCT_FMT of the six scalar classes.
STRUCT_FMT(cls) ==
    CASE cls = TAG_Byte -> "b"
      [] cls = TAG_Short -> "h"
      [] cls = TAG_Int -> "i"
      [] cls = TAG_Long -> "q"
      [] cls = TAG_Float -> "f"
      [] cls = TAG_Double -> "d"

\* BaseTag.__init__(self, value, name=None) of class cls.
BaseTag(cls, value, name) == [type |-> cls, name |-> name, value |-> value]

\* TAG_List.__init__(self, tag_type, value, name=None): tag_type is an int or
\* a class (whose index is taken); the value is stored as it is given.
NewList(tag_type, value, name) ==
    [type |-> TAG_List, name |-> name, value |-> value, ltype |-> tag_type]

\* The naming rule of TAG_Compound: a tag with no name takes the key's.
NameFromKey(key, item) ==
    IF item.name = None THEN [item EXCEPT !.name = key] ELSE item

\* TAG_Compound.update(self, other): dict.update, then every item whose name
\* is None is named after its key.
update(self, other) ==
    LET merged == [k \in (DOMAIN self.value) \cup (DOMAIN other) |->
                      IF k \in DOMAIN other THEN other[k] ELSE self.value[k]]
    IN  [self EXCEPT !.value = [k \in DOMAIN merged |-> NameFromKey(k, merged[k])]]

\* __setitem__ as it would be if it named every tag after its key.
SetItemRenaming(self, key, value) ==
    [self EXCEPT !.value = DictSet(self.value, key, [value EXCEPT !.name = key])]

\* TAG_Compound.__setitem__(self, key, value).
__setitem__(self, key, value) ==
    [self EXCEPT !.value = DictSet(self.value, key, NameFromKey(key, value))]

\* TAG_Compound.__init__(self, value, name=None): self.update(value).
NewCompound(value, name) ==
    update([type |-> TAG_Compound, name |-> name, value |-> EmptyDict], value)

---------------------------------------------------------------------------
(* BaseTag.read(cls, rd, has_name): the recursive decoder. *)

RECURSIVE read(_, _, _, _, _)
RECURSIVE ReadChildren(_, _, _, _)
RECURSIVE ReadItems(_, _, _, _, _, _)

\* _tags[tag].read(rd) in the TAG_Compound branch: the lookup raises
\* IndexError outside the tuple, and None has no read.
ReadChild(le, stream, pos, tag) ==
    IF ~TagsHas(tag) THEN Raise("IndexError", pos)
    ELSE IF TagsAt(tag) = 0 THEN Raise("AttributeError", pos)
    ELSE read(le, stream, TagsAt(tag), pos, TRUE)

\* The while-loop of the TAG_Compound branch: one discriminant byte, then the
\* child it announces, until the discriminant is 0.
ReadChildren(le, stream, pos, final) ==
    Bind(RdInt(le, stream, pos, "b"),
         LAMBDA tag :
             IF tag.val = 0 THEN Ok(final, tag.pos)
             ELSE Bind(ReadChild(le, stream, tag.pos, tag.val),
                       LAMBDA tmp :
                           ReadChildren(le, stream, tmp.pos,
                                        DictSet(final, tmp.val.name, tmp.val))))

\* The list comprehension of the TAG_List branch:
\* [real_type.read(rd, has_name=False) for x in range(0, length)].
ReadItems(le, stream, real_type, pos, length, items) ==
    IF length <= 0 THEN Ok(items, pos)
    ELSE IF real_type = 0 THEN Raise("AttributeError", pos)
    ELSE Bind(read(le, stream, real_type, pos, FALSE),
              LAMBDA item :
                  ReadItems(le, stream, real_type, item.pos, length - 1,
                            Append(items, item.val)))

\* The TAG_List branch after tag_type, length = rd('bi'), five bytes in one
\* read: real_type = _tags[tag_type], then the items.
ReadList(le, stream, pos, name, tag_type, length) ==
    IF ~TagsHas(tag_type) THEN Raise("IndexError", pos)
    ELSE Bind(ReadItems(le, stream, TagsAt(tag_type), pos, length, <<>>),
              LAMBDA items : Ok(NewList(tag_type, items.val, name), items.pos))

\* The value of the classes that hold no tags.
ReadValue(le, stream, cls, pos) ==
    IF cls = TAG_String THEN _read_utf8(le, stream, pos)
    ELSE IF cls = TAG_Byte_Array THEN
        Bind(RdInt(le, stream, pos, "i"),
             LAMBDA length : RdBytes(stream, length.pos, length.val))
    ELSE IF cls = TAG_Int_Array THEN
        Bind(RdInt(le, stream, pos, "i"),
             LAMBDA length :
                 Bind(RdIntsFirst(le, stream, length.pos, length.val),
                      LAMBDA first : Ok(PyInt(first.val), first.pos)))
    ELSE IF cls \in {TAG_Float, TAG_Double} THEN
        RdFloat(le, stream, pos, STRUCT_FMT(cls))
    ELSE RdInt(le, stream, pos, STRUCT_FMT(cls))

read(le, stream, cls, pos, has_name) ==
    Bind(IF has_name THEN _read_utf8(le, stream, pos) ELSE Ok(None, pos),
         LAMBDA name :
             IF cls = TAG_Compound THEN
                 Bind(ReadChildren(le, stream, name.pos, EmptyDict),
                      LAMBDA final : Ok(NewCompound(final.val, name.val), final.pos))
             ELSE IF cls = TAG_List THEN
                 Bind(RdData(stream, name.pos, 5),
                      LAMBDA data :
                          ReadList(le, stream, data.pos, name.val,
                                   UnpackInt(le, SubSeq(data.val, 1, 1)),
                                   UnpackInt(le, SubSeq(data.val, 2, 5))))
             ELSE Bind(ReadValue(le, stream, cls, name.pos),
                       LAMBDA value : Ok(BaseTag(cls, value.val, name.val), value.pos)))

\* NBTFileLoad as it would be if the first byte were skipped unchecked.
NBTFileLoadUnchecked(le, stream) ==
    Bind(RdInt(le, stream, 0, "b"),
         LAMBDA first :
             Bind(read(le, stream, TAG_Compound, first.pos, TRUE),
                  LAMBDA tmp :
                      Ok(NewCompound(tmp.val.value, tmp.val.name), tmp.pos)))

\* NBTFile.__init__(io, compressed=False, little_endian=le): one byte, which
\* must be 0x0A, then TAG_Compound.read(x); the NBTFile is built from the
\* result with the result's name.
NBTFileLoad(le, stream) ==
    Bind(RdInt(le, stream, 0, "b"),
         LAMBDA first :
             IF first.val # 10 THEN Raise("IOError", first.pos)
             ELSE Bind(read(le, stream, TAG_Compound, first.pos, TRUE),
                       LAMBDA tmp :
                           Ok(NewCompound(tmp.val.value, tmp.val.name), tmp.pos)))

---------------------------------------------------------------------------
(* The writer w = lambda f, *args: g.write(struct.pack(order + f, *args)). *)
(* A write returns the bytes that reached the stream and the exception     *)
(* that ended it, or NoExc.  struct.pack packs all the fields of one call  *)
(* before anything is written.                                             *)

Wrote(bytes) == [bytes |-> bytes, exc |-> NoExc]

Failed(exc) == [bytes |-> <<>>, exc |-> exc]

\* a; b in the writer: b runs only if a raised nothing.
Then(a, b) ==
    IF a.exc # NoExc THEN a ELSE [bytes |-> a.bytes \o b.bytes, exc |-> b.exc]

\* wt(c, v) for one integer format character.
WtInt(le, c, v) ==
    IF InRange(c, v) THEN Wrote(PackInt(le, c, v)) ELSE Failed("struct.error")

\* _write_utf8(wt, value): wt('h%ss' % len(value), len(value), value).
_write_utf8(le, value) ==
    IF InRange("h", Len(value)) THEN Wrote(PackInt(le, "h", Len(value)) \o value)
    ELSE Failed("struct.error")

\* The header every write method starts with:
\* if self.name is not None: wt('b', index); _write_utf8(wt, self.name).
WriteHeader(le, self) ==
    IF self.name # None
    THEN Then(WtInt(le, "b", self.type), _write_utf8(le, self.name))
    ELSE Wrote(<<>>)

RECURSIVE write(_, _)
RECURSIVE WriteItems(_, _)
RECURSIVE WriteValues(_, _, _)

\* for item in self.value: item.write(wt)
WriteItems(le, items) ==
    IF items = <<>> THEN Wrote(<<>>)
    ELSE Then(write(le, Head(items)), WriteItems(le, Tail(items)))

\* for v in self.value.itervalues(): v.write(wt), in the dict's own order
\* (arbitrary, the same within one call).
WriteValues(le, d, keys) ==
    IF keys = {} THEN Wrote(<<>>)
    ELSE LET k == CHOOSE x \in keys : TRUE
         IN  Then(write(le, d[k]), WriteValues(le, d, keys \ {k}))

\* The write method of each class.
write(le, self) ==
    Then(WriteHeader(le, self),
         IF self.type = TAG_Compound THEN
             Then(WriteValues(le, self.value, DOMAIN self.value), WtInt(le, "b", 0))
         ELSE IF self.type = TAG_List THEN
             \* wt('bi', self._type, len(self.value)), then the items.
             Then(IF InRange("b", self.ltype) /\ InRange("i", Len(self.value))
                  THEN Wrote(PackInt(le, "b", self.ltype)
                             \o PackInt(le, "i", Len(self.value)))
                  ELSE Failed("struct.error"),
                  WriteItems(le, self.value))
         ELSE IF self.type = TAG_String THEN
             _write_utf8(le, self.value)
         ELSE IF self.type = TAG_Byte_Array THEN
             \* wt('i%ss' % len(self.value), len(self.value), self.value)
             IF InRange("i", Len(self.value))
             THEN Wrote(PackInt(le, "i", Len(self.value)) \o self.value)
             ELSE Failed("struct.error")
         ELSE IF self.type = TAG_Int_Array THEN
             \* wt('i%si' % len(self.value), len(self.value), self.value): the
             \* format wants 1 + len(value) integers and is given two
             \* arguments, the second a sequence: struct.error for every value.
             Failed("struct.error")
         ELSE IF self.type \in {TAG_Float, TAG_Double} THEN
             Wrote(PackFloat(le, self.value))
         ELSE WtInt(le, STRUCT_FMT(self.type), self.value))

---------------------------------------------------------------------------
(* The wire format of a tag tree as another writer of the format produces  *)
(* it (the files the library is given to read): discriminant and name      *)
(* where the tag has a header, unsigned 2-byte lengths, every element of   *)
(* an array, list elements without headers.                                *)

RECURSIVE Wire(_, _, _)
RECURSIVE WireSeq(_, _)
RECURSIVE WireInts(_, _)
RECURSIVE WireValues(_, _, _)

WireU16(le, n) == IF le THEN Reverse(Digits(n, 2)) ELSE Digits(n, 2)

WireString(le, s) == WireU16(le, Len(s)) \o s

WireInts(le, ints) ==
    IF ints = <<>> THEN <<>>
    ELSE PackInt(le, "i", Head(ints)) \o WireInts(le, Tail(ints))

WireSeq(le, items) ==
    IF items = <<>> THEN <<>>
    ELSE Wire(le, Head(items), FALSE) \o WireSeq(le, Tail(items))

WireValues(le, d, keys) ==
    IF keys = {} THEN <<>>
    ELSE LET k == CHOOSE x \in keys : TRUE
         IN  Wire(le, [d[k] EXCEPT !.name = k], TRUE) \o WireValues(le, d, keys \ {k})

Wire(le, tag, header) ==
    (IF header THEN <<tag.type>> \o WireString(le, tag.name) ELSE <<>>)
    \o (IF tag.type = TAG_Compound THEN
            WireValues(le, tag.value, DOMAIN tag.value) \o <<0>>
        ELSE IF tag.type = TAG_List THEN
            <<tag.ltype>> \o PackInt(le, "i", Len(tag.value)) \o WireSeq(le, tag.value)
        ELSE IF tag.type = TAG_String THEN WireString(le, tag.value)
        ELSE IF tag.type = TAG_Byte_Array THEN
            PackInt(le, "i", Len(tag.value)) \o tag.value
        ELSE IF tag.type = TAG_Int_Array THEN
            PackInt(le, "i", Len(tag.value.list)) \o WireInts(le, tag.value.list)
        ELSE IF tag.type \in {TAG_Float, TAG_Double} THEN PackFloat(le, tag.value)
        ELSE PackInt(le, STRUCT_FMT(tag.type), tag.value))

---------------------------------------------------------------------------
(* The values the calls are made with. *)

KeyA == <<97>>          \* "a"
KeyB == <<98>>          \* "b"
NameX == <<120>>        \* "x"

\* NBTFile(name=...): the default '' and "r".
RootNames == {<<>>, <<114>>}

Keys == {KeyA, KeyB}

\* The pools below are tuples, not sets: their members are of different
\* shapes, and TLC compares the members of a set with each other.
RECURSIVE Flatten(_)
Flatten(qs) == IF qs = <<>> THEN <<>> ELSE Head(qs) \o Flatten(Tail(qs))

RECURSIVE IntSeqs(_)
\* The sequences over {1, -2} of length at most n, as a tuple.
IntSeqs(n) ==
    IF n = 0 THEN << <<>> >>
    ELSE LET shorter == IntSeqs(n - 1)
             longest == SelectSeq(shorter, LAMBDA q : Len(q) = n - 1)
         IN  shorter \o Flatten([i \in 1..Len(longest) |->
                                    <<Append(longest[i], 1), Append(longest[i], -2)>>])

\* TAG_Int_Array values of every length 0..MaxInts.
IntArrays ==
    [i \in 1..Len(IntSeqs(MaxInts)) |->
        BaseTag(TAG_Int_Array, PyList(IntSeqs(MaxInts)[i]), None)]

ByteOne == BaseTag(TAG_Byte, 1, None)

Inner == NewCompound(KeyA :> BaseTag(TAG_Byte, 3, None), None)

\* Tags that follow the format's rules, with no name yet.
Plain ==
    << BaseTag(TAG_Byte, -1, None),
      BaseTag(TAG_Short, 258, None),
      BaseTag(TAG_Int, -2, None),
      BaseTag(TAG_Long, 5, None),
      BaseTag(TAG_Float, <<63, 128, 0, 0>>, None),
      BaseTag(TAG_Double, <<191, 240, 0, 0, 0, 0, 0, 1>>, None),
      BaseTag(TAG_Byte_Array, <<1, 255>>, None),
      BaseTag(TAG_String, <<104, 105>>, None),
      NewList(TAG_Byte, <<ByteOne, BaseTag(TAG_Byte, 2, None)>>, None),
      NewList(TAG_Short, <<>>, None),
      NewList(0, <<>>, None),
      NewList(TAG_Compound, <<Inner>>, None),
      Inner >> \o IntArrays

\* Tags the constructors also accept: one that already has a name, a list
\* whose element is of another class than its tag_type, a list whose
\* element has a name.
Odd ==
    << BaseTag(TAG_Short, 7, KeyB),
      NewList(TAG_Byte, <<BaseTag(TAG_Short, 1, None)>>, None),
      NewList(TAG_Byte, <<BaseTag(TAG_Byte, 1, NameX)>>, None) >>

Pool == Plain \o Odd

\* What is appended to a list's value.
Items == <<ByteOne, BaseTag(TAG_Short, 1, None)>>

\* The dicts update() is called with.
UpdateArgs ==
    << KeyA :> BaseTag(TAG_Byte, -1, None),
      KeyB :> BaseTag(TAG_Short, 7, KeyB),
      (KeyA :> BaseTag(TAG_Int, -2, KeyB)) @@ (KeyB :> BaseTag(TAG_Byte, -1, None)) >>

\* Documents with at most one child, each following the format's rules.
DecodeDoc(i, r) ==
    IF i = 0 THEN NewCompound(EmptyDict, r) ELSE NewCompound(KeyA :> Plain[i], r)

\* Bytes written over a byte of the stream.
TamperBytes == {0, 9, 12, 128, 244, 245, 255}

\* Lengths of the byte strings _write_utf8 and _read_utf8 are applied to,
\* around the limits of one and two bytes, signed and unsigned.
StrLens == {0, 1, 2, 127, 128, 255, 256, 32767, 32768, 65535}

Strings == {[i \in 1..n |-> c] : n \in StrLens, c \in {0, 97, 255}}

NoTamper == [kind |-> "none", at |-> 0, byte |-> 0]
NoOut == [ok |-> FALSE, exc |-> NoExc, pos |-> 0]
NoCall == [op |-> "new", key |-> None, arg |-> None]

---------------------------------------------------------------------------
(* The session: build a document in memory, save it, load the stream. *)

Init ==
    /\ pc = "build"
    /\ little_endian \in BOOLEAN
    /\ \E r \in RootNames : doc = NewCompound(EmptyDict, r)
    /\ last = NoCall
    /\ orig = <<>>
    /\ io = <<>>
    /\ werr = NoExc
    /\ tamper = NoTamper
    /\ out = NoOut

\* doc[key] = value
SetItem(key, value) ==
    /\ pc = "build"
    /\ doc' = __setitem__(doc, key, value)
    /\ last' = [op |-> "setitem", key |-> key, arg |-> value]
    /\ UNCHANGED <<pc, little_endian, orig, io, werr, tamper, out>>

\* doc.update(other)
Update(other) ==
    /\ pc = "build"
    /\ doc' = update(doc, other)
    /\ last' = [op |-> "update", key |-> None, arg |-> other]
    /\ UNCHANGED <<pc, little_endian, orig, io, werr, tamper, out>>

\* doc[key].value.append(item): a TAG_List's value is a plain list.
ListAppend(key, item) ==
    /\ pc = "build"
    /\ key \in DOMAIN doc.value
    /\ doc.value[key].type = TAG_List
    /\ Len(doc.value[key].value) < MaxListLen
    /\ doc' = [doc EXCEPT !.value[key].value = Append(@, item)]
    /\ last' = [op |-> "append", key |-> key, arg |-> item]
    /\ UNCHANGED <<pc, little_endian, orig, io, werr, tamper, out>>

\* doc.save(io, compressed=False, little_endian): self.write(w).
Save ==
    /\ pc = "build"
    /\ LET w == write(little_endian, doc)
       IN  /\ io' = w.bytes
           /\ orig' = w.bytes
           /\ werr' = w.exc
    /\ pc' = "written"
    /\ UNCHANGED <<little_endian, doc, last, tamper, out>>

\* NBTFile(io, compressed=False, little_endian)
Load ==
    /\ pc \in {"written", "tampered"}
    /\ out' = NBTFileLoad(little_endian, io)
    /\ pc' = "loaded"
    /\ UNCHANGED <<little_endian, doc, last, orig, io, werr, tamper>>

Next ==
    \/ \E key \in Keys, i \in 1..Len(Pool) : SetItem(key, Pool[i])
    \/ \E i \in 1..Len(UpdateArgs) : Update(UpdateArgs[i])
    \/ \E key \in Keys, i \in 1..Len(Items) : ListAppend(key, Items[i])
    \/ Save
    \/ Load

Spec == Init /\ [][Next]_vars

---------------------------------------------------------------------------
(* Reading streams: a document's stream, written by save() or by another  *)
(* writer of the format, is cut short or has one byte changed, and is     *)
(* then loaded.                                                            *)

InitDecode ==
    /\ pc = "build"
    /\ little_endian \in BOOLEAN
    /\ \E i \in 0..Len(Plain), r \in RootNames : doc = DecodeDoc(i, r)
    /\ last = NoCall
    /\ orig = <<>>
    /\ io = <<>>
    /\ werr = NoExc
    /\ tamper = NoTamper
    /\ out = NoOut

\* The file holds the document as another writer of the format wrote it.
Feed ==
    /\ pc = "build"
    /\ io' = Wire(little_endian, doc, TRUE)
    /\ orig' = io'
    /\ werr' = NoExc
    /\ pc' = "written"
    /\ UNCHANGED <<little_endian, doc, last, tamper, out>>

\* The file loses its end: n bytes are left.
Truncate(n) ==
    /\ pc = "written"
    /\ n < Len(io)
    /\ io' = SubSeq(io, 1, n)
    /\ tamper' = [kind |-> "truncate", at |-> n, byte |-> 0]
    /\ pc' = "tampered"
    /\ UNCHANGED <<little_endian, doc, last, orig, werr, out>>

\* Byte i of the file (counted from 1) becomes b.
SetByte(i, b) ==
    /\ pc = "written"
    /\ i \in 1..Len(io)
    /\ io[i] # b
    /\ io' = [io EXCEPT ![i] = b]
    /\ tamper' = [kind |-> "setbyte", at |-> i, byte |-> b]
    /\ pc' = "tampered"
    /\ UNCHANGED <<little_endian, doc, last, orig, werr, out>>

NextDecode ==
    \/ Save
    \/ Feed
    \/ \E n \in 0..Len(io) : Truncate(n)
    \/ \E i \in 1..Len(io), b \in TamperBytes : SetByte(i, b)
    \/ Load

SpecDecode == InitDecode /\ [][NextDecode]_vars

---------------------------------------------------------------------------
(* Length-prefixed strings on their own: _write_utf8 and _read_utf8. *)

InitUtf8 ==
    /\ pc = "build"
    /\ little_endian \in BOOLEAN
    /\ doc \in Strings
    /\ last = NoCall
    /\ orig = <<>>
    /\ io = <<>>
    /\ werr = NoExc
    /\ tamper = NoTamper
    /\ out = NoOut

\* _write_utf8(w, doc)
Utf8Write ==
    /\ pc = "build"
    /\ LET w == _write_utf8(little_endian, doc)
       IN  /\ io' = w.bytes
           /\ orig' = w.bytes
           /\ werr' = w.exc
    /\ pc' = "written"
    /\ UNCHANGED <<little_endian, doc, last, tamper, out>>

\* The stream holds doc as another writer of the format wrote it.
Utf8Feed ==
    /\ pc = "build"
    /\ io' = WireString(little_endian, doc)
    /\ orig' = io'
    /\ werr' = NoExc
    /\ pc' = "fed"
    /\ UNCHANGED <<little_endian, doc, last, tamper, out>>

\* _read_utf8(x)
Utf8Read ==
    /\ pc \in {"written", "fed"}
    /\ out' = _read_utf8(little_endian, io, 0)
    /\ pc' = "loaded"
    /\ UNCHANGED <<little_endian, doc, last, orig, io, werr, tamper>>

NextUtf8 == Utf8Write \/ Utf8Feed \/ Utf8Read

SpecUtf8 == InitUtf8 /\ [][NextUtf8]_vars

---------------------------------------------------------------------------
(* Vocabulary of the properties. *)

RECURSIVE WellFormed(_)
\* The tree follows the format's rules: each child of a compound is named
\* after its key, each element of a list is of the list's element type and
\* has no name.
WellFormed(tag) ==
    IF tag.type = TAG_Compound THEN
        \A k \in DOMAIN tag.value :
            tag.value[k].name = k /\ WellFormed(tag.value[k])
    ELSE IF tag.type = TAG_List THEN
        \A i \in 1..Len(tag.value) :
            /\ tag.value[i].name = None
            /\ tag.value[i].type = tag.ltype
            /\ WellFormed(tag.value[i])
    ELSE TRUE

RECURSIVE HasIntArray(_)
HasIntArray(tag) ==
    IF tag.type = TAG_Compound THEN \E k \in DOMAIN tag.value : HasIntArray(tag.value[k])
    ELSE IF tag.type = TAG_List THEN \E i \in 1..Len(tag.value) : HasIntArray(tag.value[i])
    ELSE tag.type = TAG_Int_Array

\* The children of doc that are lists.
ListKeys == {k \in DOMAIN doc.value : doc.value[k].type = TAG_List}

RECURSIVE Payloads(_, _)
\* The items of a list encoded one after the other with no header.
Payloads(le, items) ==
    IF items = <<>> THEN <<>>
    ELSE write(le, [Head(items) EXCEPT !.name = None]).bytes \o Payloads(le, Tail(items))

\* In a stream that holds a document with the root name of doc: the place of
\* the first child's discriminant, and with one child under KeyA, the place
\* where that child's value starts.
FirstTagPos == 3 + Len(doc.name) + 1
FirstValuePos == FirstTagPos + 2 + Len(KeyA) + 1

\* doc has one child, under KeyA, of class cls.
OnlyChildIs(cls) == DOMAIN doc.value = {KeyA} /\ doc.value[KeyA].type = cls

---------------------------------------------------------------------------
(* Properties. *)

\* A document without a TAG_Int_Array that follows the format's rules is
\* saved without an exception and loads back equal to itself.
RoundTripWithoutIntArray ==
    (WellFormed(doc) /\ ~HasIntArray(doc)) =>
        /\ pc = "written" => werr = NoExc
        /\ pc = "loaded" => (out.ok /\ out.val = doc)

\* C1: every document that follows the format's rules, in both byte orders,
\* is saved without an exception and loads back structurally equal to
\* itself.  (Stated as the claim has it; the code violates it.)
Cex_C1 ==
    WellFormed(doc) =>
        /\ pc = "written" => werr = NoExc
        /\ pc = "loaded" => (out.ok /\ out.val = doc)

\* C2: loading a stream whose first byte is not 0x0A fails with the format
\* error (IOError) after reading exactly that one byte; when the first byte
\* is 0x0A and the load succeeds, the result is a compound whose name is the
\* length-prefixed name that follows the first byte.
Thm_C2 ==
    (pc = "loaded" /\ io # <<>>) =>
        /\ io[1] # 10 => (~out.ok /\ out.exc = "IOError" /\ out.pos = 1)
        /\ (io[1] = 10 /\ out.ok) =>
               /\ out.val.type = TAG_Compound
               /\ UnpackInt(little_endian, SubSeq(io, 2, 3)) = Len(out.val.name)
               /\ out.val.name = SubSeq(io, 4, 3 + Len(out.val.name))

\* C2 witness: a stream whose first byte was made 0x09 (List) was loaded and
\* the load failed with IOError.
Wit_C2 ==
    /\ pc = "loaded"
    /\ tamper = [kind |-> "setbyte", at |-> 1, byte |-> 9]
    /\ ~out.ok
    /\ out.exc = "IOError"

\* C3: after doc[K] = t or doc.update({K: t, ...}), the tag stored under K is
\* t with its name set to K if t had no name, and t unchanged, its own name
\* included, if t had a name.
Thm_C3 ==
    /\ last.op = "setitem" =>
           doc.value[last.key] =
               (IF last.arg.name = None THEN [last.arg EXCEPT !.name = last.key]
                ELSE last.arg)
    /\ last.op = "update" =>
           \A k \in DOMAIN last.arg :
               doc.value[k] =
                   (IF last.arg[k].name = None THEN [last.arg[k] EXCEPT !.name = k]
                    ELSE last.arg[k])

\* C3 witness: a tag named "b" was stored under key "a" and is still named
\* "b", and a tag with no name was stored under key "b" and is named "b".
Wit_C3 ==
    /\ last.op = "update"
    /\ DOMAIN last.arg = {KeyA, KeyB}
    /\ last.arg[KeyA].name = KeyB
    /\ last.arg[KeyB].name = None
    /\ doc.value[KeyA].name = KeyB
    /\ doc.value[KeyB].name = KeyB

\* C4: every child stored in the compound under key K has the name K.
\* (Stated as the claim has it; the code violates it.)
Cex_C4 == \A k \in DOMAIN doc.value : doc.value[k].name = k

\* C5: every element of a list is of the list's declared element type, a
\* list with another element being rejected when it is constructed or
\* appended to.  (Stated as the claim has it; the code violates it.)
Cex_C5 ==
    \A k \in ListKeys :
        \A i \in 1..Len(doc.value[k].value) :
            doc.value[k].value[i].type = doc.value[k].ltype

\* C6: a load that meets a byte outside 0..11 where a compound child's
\* discriminant or a list's element type stands fails.  (Stated as the claim
\* has it; the code violates it.)
Cex_C6 ==
    ( /\ pc = "loaded"
      /\ orig = Wire(little_endian, doc, TRUE)
      /\ tamper.kind = "setbyte"
      /\ tamper.byte \notin 0..11
      /\ \/ tamper.at = FirstTagPos
         \/ OnlyChildIs(TAG_List) /\ tamper.at = FirstValuePos )
    => ~out.ok

\* C7: a load of a stream that ends before the bytes a complete load of it
\* would have read fails, and so does a load that meets a negative
\* TAG_Byte_Array length.
Thm_C7 ==
    pc = "loaded" =>
        /\ ( /\ tamper.kind = "truncate"
             /\ NBTFileLoad(little_endian, orig).ok
             /\ tamper.at < NBTFileLoad(little_endian, orig).pos )
           => ~out.ok
        /\ ( /\ tamper.kind = "setbyte"
             /\ orig = Wire(little_endian, doc, TRUE)
             /\ OnlyChildIs(TAG_Byte_Array)
             /\ tamper.at = FirstValuePos + (IF little_endian THEN 3 ELSE 0)
             /\ tamper.byte >= 128 )
           => ~out.ok

\* C7 witness: a stream holding a list was cut inside the bytes its load
\* reads, and the load of what is left failed.
Wit_C7 ==
    /\ pc = "loaded"
    /\ OnlyChildIs(TAG_List)
    /\ tamper.kind = "truncate"
    /\ NBTFileLoad(little_endian, orig).ok
    /\ tamper.at < NBTFileLoad(little_endian, orig).pos
    /\ tamper.at > FirstValuePos
    /\ ~out.ok

\* C8: a TAG_Int_Array is written as its 4-byte count and every element, and
\* a stream holding the count N and N integers loads as the tag whose value
\* is all N integers in order.  (Stated as the claim has it; the code
\* violates it.)
Cex_C8 ==
    (pc = "loaded" /\ tamper.kind = "none" /\ OnlyChildIs(TAG_Int_Array)) =>
        /\ werr = NoExc
        /\ orig = Wire(little_endian, doc, TRUE)
        /\ out.ok
        /\ out.val.value[KeyA].value = doc.value[KeyA].value

\* C9: a list is written as its header, its element type, its count and
\* then its items with no discriminant and no name, whether or not an item
\* has a name.  (Stated as the claim has it; the code violates it.)
Cex_C9 ==
    \A k \in ListKeys :
        (pc = "written" /\ werr = NoExc /\ DOMAIN doc.value = {k}) =>
            io = WriteHeader(little_endian, doc).bytes
                 \o WriteHeader(little_endian, doc.value[k]).bytes
                 \o PackInt(little_endian, "b", doc.value[k].ltype)
                 \o PackInt(little_endian, "i", Len(doc.value[k].value))
                 \o Payloads(little_endian, doc.value[k].value)
                 \o <<0>>

\* C10: a byte string of any length 0..65535 is written as its 2-byte
\* unsigned length and its bytes, and is read back equal to itself.
\* (Stated as the claim has it; the code violates it.)
Cex_C10 ==
    /\ pc = "written" => (werr = NoExc /\ io = WireString(little_endian, doc))
    /\ pc = "loaded" => (out.ok /\ out.val = doc)

============================================================================
